---------------------------- MODULE Spec2Model ----------------------------
(***************************************************************************)
(* Model of the async broadcast adapter in src/src/async_.rs:              *)
(* Publisher (Sink), Subscriber (Stream) and the Waker/Sleeper alarm       *)
(* registry that carries wake handles (Arc<AtomicTask>) from Subscribers   *)
(* to the Publisher.                                                       *)
(*                                                                         *)
(* Not in src/ (brought in by `use super::*`): the bare channel            *)
(* (bare_channel, BarePublisher::broadcast, BareSubscriber::try_recv and   *)
(* ::clone).  It is modelled from spec.md sections 1, 4.3, 5, 6 and 8: a   *)
(* log of broadcast items, one read cursor per Subscriber, an error from   *)
(* broadcast when the capacity is exceeded or no Subscriber is left,       *)
(* Disconnected from try_recv once the Publisher is gone and the cursor    *)
(* has drained the log.                                                    *)
(*                                                                         *)
(* Library semantics used by the code (futures 0.1):                       *)
(*   AtomicTask::register  stores the current task in the handle;          *)
(*   AtomicTask::notify    takes the stored task, if any, and notifies it; *)
(*   a notified task is polled again by its executor; a task that returned *)
(*   NotReady is polled again only after a notification.                   *)
(*                                                                         *)
(* The specifications share the variables:                                 *)
(*   Spec           every operation is one atomic action (sequential use); *)
(*   FairSpec       Spec with the executor's fairness: a scheduled task    *)
(*                  is polled;                                             *)
(*   FullQueueSpec  Spec with as many clones as it takes to fill the       *)
(*                  registration queue (RegQueueCap + 2 Subscribers);      *)
(*   ConcSpec       poll and start_send are split into their steps, which  *)
(*                  interleave (Subscriber and Publisher on two threads).  *)
(***************************************************************************)
EXTENDS Naturals, Sequences, FiniteSets

(* ------------------------------ bounds -------------------------------- *)
\* Subscriber slots: how many Subscribers are alive at the same time.
MaxSlots == 2
\* Subscribers ever constructed (channel() plus clones) under Spec.
MaxIds == 5
\* start_send calls.
MaxSends == 3
\* Bare channel capacity given to channel(size).
Size == 1

(* ----------------------- program constants ---------------------------- *)
\* alarm(): mpsc::channel(10), the bound of the registration queue.
RegQueueCap == 10

\* Subscribers ever constructed under FullQueueSpec: the one of channel(),
\* the clones that fill the registration queue, and one more.
FullQueueIds == RegQueueCap + 2

Slots == 0 .. (MaxSlots - 1)
IdCap == IF MaxIds > FullQueueIds THEN MaxIds ELSE FullQueueIds
Ids == 0 .. (IdCap - 1)
NoTask == IdCap + 1
NoId == IdCap + 2

VARIABLES
    pubAlive,   \* the Publisher has not been dropped
    sleepers,   \* Waker.sleepers: the active list of wake handles
    queue,      \* the registration queue between Sleeper.sender and Waker.receiver
    task,       \* task[h]: the task stored in AtomicTask h, or NoTask
    log,        \* bare channel: the items broadcast so far, in order
    nextItem,   \* the number of start_send calls so far (names the next item)
    nextId,     \* the number of Subscribers constructed so far
    alive,      \* alive[s]: slot s holds a Subscriber
    id,         \* id[s]: which Subscriber (and which task polls it)
    sleeper,    \* sleeper[s]: Sleeper.sleeper, the Subscriber's wake handle
    cursor,     \* cursor[s]: bare subscriber read position in log
    runnable,   \* runnable[s]: the task of s is scheduled to poll
    lastPoll,   \* lastPoll[s]: what the last poll returned
    born,       \* born[s]: Len(log) when s was constructed (history)
    got,        \* got[s]: the items the polls of s returned (history)
    sendRes,    \* what the last start_send returned
    woken,      \* the handles the last start_send notified (history)
    sinkRes,    \* what the last poll_complete or close returned
    panicked,   \* the unwrap in Drop for Publisher has failed
    ppc,        \* ConcSpec: the Publisher's position inside start_send
    pitem,      \* ConcSpec: the item of the start_send in progress
    spc         \* ConcSpec: spc[s], the position of s inside poll

vars == << pubAlive, sleepers, queue, task, log, nextItem, nextId, alive, id,
           sleeper, cursor, runnable, lastPoll, born, got, sendRes, woken,
           sinkRes, panicked, ppc, pitem, spc >>

sinkVars == << sinkRes, panicked >>
pubVars == << pubAlive, sleepers, queue, log, nextItem, sendRes, woken,
             sinkVars >>
subVars == << nextId, alive, id, sleeper, cursor, lastPoll, born, got >>
concVars == << ppc, pitem, spc >>

Range(f) == { f[i] : i \in DOMAIN f }

Min(S) == CHOOSE x \in S : \A y \in S : x <= y

LiveSlots == { s \in Slots : alive[s] }

(* ------------------------- the bare channel --------------------------- *)
\* BarePublisher::get_sub_count: the Subscribers (cursors) that exist.
SubCount == Cardinality(LiveSlots)

\* Items held for the slowest live cursor.
Buffered == IF LiveSlots = {} THEN 0
            ELSE Len(log) - Min({ cursor[s] : s \in LiveSlots })

\* BarePublisher::broadcast(item) returns Ok: there is a Subscriber and room.
BroadcastOk == SubCount > 0 /\ Buffered < Size

\* BareSubscriber::try_recv on slot s: "Item", "Empty" or "Disconnected".
TryRecv(s) == IF cursor[s] < Len(log) THEN "Item"
              ELSE IF pubAlive THEN "Empty"
              ELSE "Disconnected"

\* BareSubscriber::clone of slot p: the read position of the new cursor.
BareClone(p) == Len(log)

(* --------------------------- alarm registry --------------------------- *)
\* alarm(current): the Waker's list seeded with the handle, the queue empty.
AlarmSleepers(h) == << h >>

\* Waker::register_receivers: `for receiver in self.receiver.recv()` runs its
\* body once for the handle recv() yields, or not at all: the loop is over
\* the single result of one recv() call.  With the queue empty recv() yields
\* no handle (when every sender is gone) or does not return (senders alive);
\* the model lets the call return with nothing drained, which includes, for
\* every safety property, the behaviours of the call that waits.
Drained(q) == IF q = << >> THEN << >> ELSE << Head(q) >>

\* A drain that keeps only what it has just received.
RegisterReceiversReplacing(sl, q) == IF q = << >> THEN sl ELSE Drained(q)

RegisterReceiversSleepers(sl, q) == sl \o Drained(q)

RegisterReceiversQueue(q) == IF q = << >> THEN q ELSE Tail(q)

\* wake_all that stops one short of the end of the list.
WakeAllButLast(sl) == { sl[i] : i \in 1 .. (Len(sl) - 1) }

\* Publisher::wake_all: the handles notify() is called on.
WakeAll(sl) == Range(sl)

\* AtomicTask::notify on every handle of H: the stored tasks are taken.
TaskAfterNotify(H) == [ h \in Ids |-> IF h \in H THEN NoTask ELSE task[h] ]

\* ... and each taken task is scheduled again.
RunnableAfterNotify(H) ==
    [ s \in Slots |-> runnable[s]
                      \/ (alive[s] /\ \E h \in H : task[h] = id[s]) ]

\* start_send that runs wake_all whatever broadcast returned.
SendWakesAlways(ok, sl) == WakeAll(sl)

\* Publisher::start_send, lines 53-56: `broadcast(item).map(|_| { wake_all })`
\* runs wake_all only on Ok.
SendWakes(ok, sl) == IF ok THEN WakeAll(sl) ELSE {}

\* ... and the value start_send returns.
SendResult(ok) == IF ok THEN "Ready" ELSE "Err"

\* poll that answers NotReady to Disconnected once it has reported the end.
PollResultFused(s, r) == CASE r = "Item" -> "Item"
                           [] r = "Empty" -> "NotReady"
                           [] r = "Disconnected" ->
                                IF lastPoll[s] = "End" THEN "NotReady" ELSE "End"

\* Subscriber::poll, lines 85-93: what poll returns for each try_recv result.
PollResult(s, r) == CASE r = "Item" -> "Item"
                      [] r = "Empty" -> "NotReady"
                      [] r = "Disconnected" -> "End"

\* poll that hands out the oldest item of the channel again.
PollYieldOldest(s) == log[1]

\* poll that yields the item before its read cursor.
PollYieldPrevious(s) == log[IF cursor[s] = 0 THEN 1 ELSE cursor[s]]

\* Subscriber::poll, line 86: the item handed out is the one try_recv gave.
PollYield(s) == log[cursor[s] + 1]

\* Subscriber::clone: `self.sleeper.sender.send(arc_t.clone());` the result
\* of send is dropped.  The queue is bounded: with the queue full, or the
\* receiver gone, nothing is enqueued and nobody is told.
SenderSend(q, h) == IF pubAlive /\ Len(q) < RegQueueCap THEN Append(q, h) ELSE q

\* clone that reuses the parent's handle (self.sleeper.sleeper.clone()).
ParentHandle(p) == sleeper[p]

\* Subscriber::clone: Arc::new(AtomicTask::new()), a handle nobody holds yet.
NewHandle(p) == nextId

(* ------------------------------- Init --------------------------------- *)
\* channel(size): bare_channel(size), alarm(AtomicTask::new()).
Init ==
    /\ pubAlive = TRUE
    /\ sleepers = AlarmSleepers(0)
    /\ queue = << >>
    /\ task = [ h \in Ids |-> NoTask ]
    /\ log = << >>
    /\ nextItem = 0
    /\ nextId = 1
    /\ alive = [ s \in Slots |-> s = 0 ]
    /\ id = [ s \in Slots |-> IF s = 0 THEN 0 ELSE NoId ]
    /\ sleeper = [ s \in Slots |-> IF s = 0 THEN 0 ELSE NoId ]
    /\ cursor = [ s \in Slots |-> 0 ]
    /\ runnable = [ s \in Slots |-> s = 0 ]
    /\ lastPoll = [ s \in Slots |-> "none" ]
    /\ born = [ s \in Slots |-> 0 ]
    /\ got = [ s \in Slots |-> << >> ]
    /\ sendRes = "none"
    /\ woken = {}
    /\ sinkRes = "none"
    /\ panicked = FALSE
    /\ ppc = "idle"
    /\ pitem = 0
    /\ spc = [ s \in Slots |-> "idle" ]

(* --------------------------- Publisher -------------------------------- *)
\* Publisher::start_send(item), lines 51-57, as one step.
StartSend ==
    /\ pubAlive
    /\ ppc = "idle"
    /\ nextItem < MaxSends
    /\ nextItem' = nextItem + 1
    /\ sleepers' = RegisterReceiversSleepers(sleepers, queue)
    /\ queue' = RegisterReceiversQueue(queue)
    /\ log' = IF BroadcastOk THEN Append(log, nextItem) ELSE log
    /\ woken' = SendWakes(BroadcastOk, sleepers')
    /\ task' = TaskAfterNotify(woken')
    /\ runnable' = RunnableAfterNotify(woken')
    /\ sendRes' = SendResult(BroadcastOk)
    /\ UNCHANGED << pubAlive, sinkVars, subVars, concVars >>

\* A poll_complete that reports an error.
PollCompleteErr == "Err"

\* Publisher::poll_complete, lines 58-60: Ok(Async::Ready(())).
PollComplete == "Ready"

\* A close that reports an error.
CloseErr == "Err"

\* Publisher::close, lines 61-63: self.poll_complete().
Close == PollComplete

\* A poll_complete that notifies the handles of the active list.
FlushWaking ==
    /\ pubAlive
    /\ ppc = "idle"
    /\ sinkRes' = PollComplete
    /\ task' = TaskAfterNotify(WakeAll(sleepers))
    /\ runnable' = RunnableAfterNotify(WakeAll(sleepers))
    /\ UNCHANGED << pubAlive, sleepers, queue, log, nextItem, sendRes, woken,
                    panicked, subVars, concVars >>

\* A call of poll_complete (flush) on the Publisher.
Flush ==
    /\ pubAlive
    /\ ppc = "idle"
    /\ sinkRes' = PollComplete
    /\ UNCHANGED << pubAlive, sleepers, queue, task, log, nextItem, runnable,
                    sendRes, woken, panicked, subVars, concVars >>

\* A call of close on the Publisher.
CloseSink ==
    /\ pubAlive
    /\ ppc = "idle"
    /\ sinkRes' = Close
    /\ UNCHANGED << pubAlive, sleepers, queue, task, log, nextItem, runnable,
                    sendRes, woken, panicked, subVars, concVars >>

\* Drop for Publisher, lines 66-70: self.close().unwrap(), which panics
\* unless close returned Ok; then (also when unwinding) the fields are
\* dropped: the bare publisher (the send side) and the Waker with its list
\* and the receiving end of the queue (what was queued goes with it).
DropPublisher ==
    /\ pubAlive
    /\ ppc = "idle"
    /\ sinkRes' = Close
    /\ panicked' = (Close # "Ready")
    /\ pubAlive' = FALSE
    /\ sleepers' = << >>
    /\ queue' = << >>
    /\ UNCHANGED << task, log, nextItem, runnable, sendRes, woken, subVars,
                    concVars >>

(* --------------------------- Subscriber ------------------------------- *)
\* poll on a read cursor that the Subscribers share: an item taken by s is
\* taken from every other Subscriber that is at the same position.
PollSharedCursor(s) ==
    /\ alive[s]
    /\ runnable[s]
    /\ spc[s] = "idle"
    /\ lastPoll' = [ lastPoll EXCEPT ![s] = PollResult(s, TryRecv(s)) ]
    /\ CASE TryRecv(s) = "Item" ->
              /\ cursor' = [ t \in Slots |->
                               IF alive[t] /\ cursor[t] = cursor[s]
                               THEN cursor[t] + 1 ELSE cursor[t] ]
              /\ got' = [ got EXCEPT ![s] = Append(@, PollYield(s)) ]
              /\ UNCHANGED task
         [] TryRecv(s) = "Empty" ->
              /\ task' = [ task EXCEPT ![sleeper[s]] = id[s] ]
              /\ UNCHANGED << cursor, got >>
         [] TryRecv(s) = "Disconnected" ->
              /\ UNCHANGED << cursor, got, task >>
    /\ runnable' = [ runnable EXCEPT ![s] = (lastPoll'[s] # "NotReady") ]
    /\ UNCHANGED << pubVars, nextId, alive, id, sleeper, born, concVars >>

\* poll that returns NotReady on an empty channel without storing the
\* current task in the handle.
PollNoRegister(s) ==
    /\ alive[s]
    /\ runnable[s]
    /\ spc[s] = "idle"
    /\ lastPoll' = [ lastPoll EXCEPT ![s] = PollResult(s, TryRecv(s)) ]
    /\ CASE TryRecv(s) = "Item" ->
              /\ cursor' = [ cursor EXCEPT ![s] = @ + 1 ]
              /\ got' = [ got EXCEPT ![s] = Append(@, PollYield(s)) ]
         [] OTHER ->
              /\ UNCHANGED << cursor, got >>
    /\ runnable' = [ runnable EXCEPT ![s] = (lastPoll'[s] # "NotReady") ]
    /\ UNCHANGED << pubVars, task, nextId, alive, id, sleeper, born, concVars >>

\* poll that on an empty channel also sends its handle through its sender.
PollSubmitting(s) ==
    /\ alive[s]
    /\ runnable[s]
    /\ spc[s] = "idle"
    /\ lastPoll' = [ lastPoll EXCEPT ![s] = PollResult(s, TryRecv(s)) ]
    /\ CASE TryRecv(s) = "Item" ->
              /\ cursor' = [ cursor EXCEPT ![s] = @ + 1 ]
              /\ got' = [ got EXCEPT ![s] = Append(@, PollYield(s)) ]
              /\ UNCHANGED << task, queue >>
         [] TryRecv(s) = "Empty" ->
              /\ task' = [ task EXCEPT ![sleeper[s]] = id[s] ]
              /\ queue' = SenderSend(queue, sleeper[s])
              /\ UNCHANGED << cursor, got >>
         [] TryRecv(s) = "Disconnected" ->
              /\ UNCHANGED << cursor, got, task, queue >>
    /\ runnable' = [ runnable EXCEPT ![s] = (lastPoll'[s] # "NotReady") ]
    /\ UNCHANGED << pubAlive, sleepers, log, nextItem, sendRes, woken,
                    sinkVars, nextId, alive, id, sleeper, born, concVars >>

\* Subscriber::poll, lines 84-95, as one step, run by the task of s.
Poll(s) ==
    /\ alive[s]
    /\ runnable[s]
    /\ spc[s] = "idle"
    /\ lastPoll' = [ lastPoll EXCEPT ![s] = PollResult(s, TryRecv(s)) ]
    /\ CASE TryRecv(s) = "Item" ->
              /\ cursor' = [ cursor EXCEPT ![s] = @ + 1 ]
              /\ got' = [ got EXCEPT ![s] = Append(@, PollYield(s)) ]
              /\ UNCHANGED task
         [] TryRecv(s) = "Empty" ->
              /\ task' = [ task EXCEPT ![sleeper[s]] = id[s] ]
              /\ UNCHANGED << cursor, got >>
         [] TryRecv(s) = "Disconnected" ->
              /\ UNCHANGED << cursor, got, task >>
    /\ runnable' = [ runnable EXCEPT ![s] = (lastPoll'[s] # "NotReady") ]
    /\ UNCHANGED << pubVars, nextId, alive, id, sleeper, born, concVars >>

\* Subscriber::clone, lines 98-110: p is cloned; the clone takes the first
\* free slot c (the live Subscribers fill the slots in construction order).
\* n bounds the Subscribers ever constructed.
CloneUpTo(p, c, n) ==
    /\ alive[p]
    /\ ~alive[c]
    /\ \A d \in Slots : d < c => alive[d]
    /\ spc[p] = "idle"
    /\ nextId < n
    /\ nextId' = nextId + 1
    /\ queue' = SenderSend(queue, NewHandle(p))
    /\ alive' = [ alive EXCEPT ![c] = TRUE ]
    /\ id' = [ id EXCEPT ![c] = nextId ]
    /\ sleeper' = [ sleeper EXCEPT ![c] = NewHandle(p) ]
    /\ cursor' = [ cursor EXCEPT ![c] = BareClone(p) ]
    /\ born' = [ born EXCEPT ![c] = Len(log) ]
    /\ got' = [ got EXCEPT ![c] = << >> ]
    /\ lastPoll' = [ lastPoll EXCEPT ![c] = "none" ]
    /\ runnable' = [ runnable EXCEPT ![c] = TRUE ]
    /\ UNCHANGED << pubAlive, sleepers, task, log, nextItem, sendRes, woken,
                    sinkVars, concVars >>

\* clone that pushes the new handle onto the active list itself.
CloneDirect(p, c) ==
    /\ alive[p]
    /\ ~alive[c]
    /\ \A d \in Slots : d < c => alive[d]
    /\ spc[p] = "idle"
    /\ nextId < MaxIds
    /\ nextId' = nextId + 1
    /\ sleepers' = IF pubAlive THEN Append(sleepers, NewHandle(p)) ELSE sleepers
    /\ alive' = [ alive EXCEPT ![c] = TRUE ]
    /\ id' = [ id EXCEPT ![c] = nextId ]
    /\ sleeper' = [ sleeper EXCEPT ![c] = NewHandle(p) ]
    /\ cursor' = [ cursor EXCEPT ![c] = BareClone(p) ]
    /\ born' = [ born EXCEPT ![c] = Len(log) ]
    /\ got' = [ got EXCEPT ![c] = << >> ]
    /\ lastPoll' = [ lastPoll EXCEPT ![c] = "none" ]
    /\ runnable' = [ runnable EXCEPT ![c] = TRUE ]
    /\ UNCHANGED << pubAlive, queue, task, log, nextItem, sendRes, woken,
                    sinkVars, concVars >>

Clone(p, c) == CloneUpTo(p, c, MaxIds)

\* Slot s is vacated: the Subscribers after it move one slot down and the
\* last slot takes the value d of a free slot.
Vacate(f, s, d) ==
    [ t \in Slots |-> IF t < s THEN f[t]
                      ELSE IF t + 1 \in Slots THEN f[t + 1]
                      ELSE d ]

\* A Subscriber is dropped (no Drop impl: its fields are dropped) and its
\* slot is vacated.  The handle stays wherever the registry holds it.  The
\* task that polled s ends with it: a handle that stores an ended task
\* notifies nobody, which is written as NoTask.
DropSubscriber(s) ==
    /\ alive[s]
    /\ \A t \in Slots : spc[t] = "idle"
    /\ alive' = Vacate(alive, s, FALSE)
    /\ id' = Vacate(id, s, NoId)
    /\ sleeper' = Vacate(sleeper, s, NoId)
    /\ cursor' = Vacate(cursor, s, 0)
    /\ born' = Vacate(born, s, 0)
    /\ got' = Vacate(got, s, << >>)
    /\ lastPoll' = Vacate(lastPoll, s, "none")
    /\ runnable' = Vacate(runnable, s, FALSE)
    /\ task' = [ h \in Ids |-> IF task[h] = id[s] THEN NoTask ELSE task[h] ]
    /\ UNCHANGED << pubVars, nextId, concVars >>

Next ==
    \/ StartSend
    \/ Flush
    \/ CloseSink
    \/ DropPublisher
    \/ \E s \in Slots : Poll(s)
    \/ \E p \in Slots : \E c \in Slots : Clone(p, c)
    \/ \E s \in Slots : DropSubscriber(s)

Spec == Init /\ [][Next]_vars

\* The same operations with enough clones to fill the registration queue.
CloneToFull(p, c) == CloneUpTo(p, c, FullQueueIds)

FullQueueNext ==
    \/ StartSend
    \/ Flush
    \/ CloseSink
    \/ DropPublisher
    \/ \E s \in Slots : Poll(s)
    \/ \E p \in Slots : \E c \in Slots : CloneToFull(p, c)
    \/ \E s \in Slots : DropSubscriber(s)

FullQueueSpec == Init /\ [][FullQueueNext]_vars

(* ------------- poll and start_send step by step (ConcSpec) ------------ *)
\* start_send, line 52: self.waker.register_receivers().
PubDrain ==
    /\ pubAlive
    /\ ppc = "idle"
    /\ nextItem < MaxSends
    /\ nextItem' = nextItem + 1
    /\ pitem' = nextItem
    /\ sleepers' = RegisterReceiversSleepers(sleepers, queue)
    /\ queue' = RegisterReceiversQueue(queue)
    /\ ppc' = "broadcast"
    /\ UNCHANGED << pubAlive, task, log, runnable, sendRes, woken, sinkVars,
                    subVars, spc >>

\* start_send, line 53: self.bare_publisher.broadcast(item); an Err is
\* returned as it is.
PubBroadcast ==
    /\ ppc = "broadcast"
    /\ log' = IF BroadcastOk THEN Append(log, pitem) ELSE log
    /\ ppc' = IF BroadcastOk THEN "wake" ELSE "idle"
    /\ sendRes' = IF BroadcastOk THEN sendRes ELSE SendResult(FALSE)
    /\ woken' = IF BroadcastOk THEN woken ELSE SendWakes(FALSE, sleepers)
    /\ UNCHANGED << pubAlive, sleepers, queue, task, nextItem, runnable, pitem,
                    sinkVars, subVars, spc >>

\* start_send, lines 54-55: self.wake_all(); AsyncSink::Ready.
PubWake ==
    /\ ppc = "wake"
    /\ woken' = SendWakes(TRUE, sleepers)
    /\ task' = TaskAfterNotify(woken')
    /\ runnable' = RunnableAfterNotify(woken')
    /\ sendRes' = SendResult(TRUE)
    /\ ppc' = "idle"
    /\ UNCHANGED << pubAlive, sleepers, queue, log, nextItem, pitem, sinkVars,
                    subVars, spc >>

\* poll, line 85: the executor runs the task of s (its pending notification
\* is consumed) and the task calls self.bare_subscriber.try_recv().  On Ok
\* and on Disconnected poll returns at once (lines 86 and 92).
PollTryRecv(s) ==
    /\ alive[s]
    /\ runnable[s]
    /\ spc[s] = "idle"
    /\ CASE TryRecv(s) = "Item" ->
              /\ cursor' = [ cursor EXCEPT ![s] = @ + 1 ]
              /\ got' = [ got EXCEPT ![s] = Append(@, PollYield(s)) ]
              /\ lastPoll' = [ lastPoll EXCEPT ![s] = PollResult(s, "Item") ]
              /\ UNCHANGED << runnable, spc >>
         [] TryRecv(s) = "Empty" ->
              /\ runnable' = [ runnable EXCEPT ![s] = FALSE ]
              /\ spc' = [ spc EXCEPT ![s] = "register" ]
              /\ UNCHANGED << cursor, got, lastPoll >>
         [] TryRecv(s) = "Disconnected" ->
              /\ lastPoll' = [ lastPoll EXCEPT ![s] = PollResult(s, "Disconnected") ]
              /\ UNCHANGED << cursor, got, runnable, spc >>
    /\ UNCHANGED << pubVars, task, nextId, alive, id, sleeper, born, ppc, pitem >>

\* poll, line 89: self.sleeper.sleeper.register().
PollRegister(s) ==
    /\ spc[s] = "register"
    /\ task' = [ task EXCEPT ![sleeper[s]] = id[s] ]
    /\ spc' = [ spc EXCEPT ![s] = "return" ]
    /\ UNCHANGED << pubVars, runnable, subVars, ppc, pitem >>

\* poll, line 90: Ok(Async::NotReady).  The task is polled again only if it
\* was notified since this poll began.
PollReturn(s) ==
    /\ spc[s] = "return"
    /\ lastPoll' = [ lastPoll EXCEPT ![s] = PollResult(s, "Empty") ]
    /\ spc' = [ spc EXCEPT ![s] = "idle" ]
    /\ UNCHANGED << pubVars, task, runnable, nextId, alive, id, sleeper, cursor,
                    born, got, ppc, pitem >>

ConcNext ==
    \/ PubDrain
    \/ PubBroadcast
    \/ PubWake
    \/ \E s \in Slots : PollTryRecv(s)
    \/ \E s \in Slots : PollRegister(s)
    \/ \E s \in Slots : PollReturn(s)
    \/ \E p \in Slots : \E c \in Slots : Clone(p, c)

ConcSpec == Init /\ [][ConcNext]_vars

\* The scheduling the executor guarantees: a task that is scheduled to poll
\* is polled.  Nothing else is promised: the Publisher may stay idle and
\* Subscribers need not be cloned or dropped.
FairSpec == Spec /\ \A s \in Slots : WF_vars(Poll(s))

(* ------------------------- claims: vocabulary ------------------------- *)
\* Subscriber i (by identity, not by slot) is alive.
Live(i) == \E s \in Slots : alive[s] /\ id[s] = i

\* The last poll of Subscriber i returned end-of-sequence.
Ended(i) == \E s \in Slots : alive[s] /\ id[s] = i /\ lastPoll[s] = "End"

\* s returned NotReady from its last poll and has not been notified since:
\* its task waits for a notification.
Suspended(s) == alive[s] /\ spc[s] = "idle" /\ lastPoll[s] = "NotReady" /\ ~runnable[s]

\* There is an item in the bare channel that s has not read.
Unread(s) == cursor[s] < Len(log)

\* The handles the registry holds: queued for registration or active.
Registered == Range(queue) \cup Range(sleepers)

(* -------------------------------- C1 ---------------------------------- *)
\* C1 (sequential use): after a successful start_send no Subscriber that
\* returned NotReady stays suspended while an item it has not read is
\* available: it was notified by that start_send, so it is scheduled to poll.
C1_NoMissedWakeup ==
    \A s \in Slots : ~ ( Suspended(s) /\ sendRes = "Ready" /\ Unread(s) )

(* -------------------------------- C2 ---------------------------------- *)
\* C2 (steps of poll and start_send interleaved): no state has a Subscriber
\* suspended with its task stored in its handle, after the start_send has
\* finished notifying that very handle, with an unread item in the channel
\* and no start_send in progress that would notify it again.
C2_NoMissedWakeupInterleaved ==
    \A s \in Slots :
        ~ ( /\ Suspended(s)
            /\ task[sleeper[s]] = id[s]
            /\ sleeper[s] \in woken
            /\ sendRes = "Ready"
            /\ ppc = "idle"
            /\ Unread(s) )

(* -------------------------------- C3 ---------------------------------- *)
\* C3: while the Publisher lives, the wake handle of every live Subscriber
\* is in the registration queue or in the active list: a clone made while
\* the queue is full does not lose its registration silently.
C3_NoSilentDrop ==
    pubAlive => \A s \in Slots : alive[s] => sleeper[s] \in Registered

(* -------------------------------- C4 ---------------------------------- *)
\* C4: once the Publisher is dropped, every Subscriber that is alive
\* eventually reports end-of-sequence (or is dropped itself), also when it
\* was suspended at the time of the drop.
C4_EventuallyTerminated ==
    \A i \in Ids : [](( ~pubAlive /\ Live(i) ) => <>( Ended(i) \/ ~Live(i) ))

(* -------------------------------- C5 ---------------------------------- *)
\* C5: a start_send whose broadcast fails returns the error, notifies no
\* handle, schedules no task and delivers nothing: the channel, every read
\* cursor and every Subscriber's received items are as before; and in every
\* state a Subscriber has received only items that are in the channel's log,
\* which a failed send never extends.
C5_FailedSendNoEffect ==
    [][ /\ ( nextItem' # nextItem /\ ~BroadcastOk ) =>
              /\ sendRes' = "Err"
              /\ woken' = {}
              /\ task' = task
              /\ runnable' = runnable
              /\ log' = log
              /\ cursor' = cursor
              /\ got' = got
        /\ \A s \in Slots : Range(got'[s]) \subseteq Range(log')
        /\ ~ ( nextItem \in Range(log) )
      ]_vars

\* C5 witness: the last send failed because a Subscriber has not read the
\* buffered item, while another Subscriber is suspended with its task still
\* stored in a handle of the active list: the failed send did not take it.
C5_Witness ==
    /\ sendRes = "Err"
    /\ woken = {}
    /\ \E s, t \in Slots : /\ Suspended(s)
                            /\ task[sleeper[s]] = id[s]
                            /\ sleeper[s] \in Range(sleepers)
                            /\ alive[t]
                            /\ Unread(t)

(* -------------------------------- C6 ---------------------------------- *)
\* C6: a start_send whose broadcast succeeds returns Ready and has notified
\* every handle of the active list as it is after the drain: each of them is
\* among the notified handles, its stored task has been taken, and every
\* Subscriber whose task was stored in one of them is scheduled to poll.
C6_SuccessfulSendWakesAll ==
    [][ ( nextItem' # nextItem /\ BroadcastOk ) =>
          /\ sendRes' = "Ready"
          /\ Range(sleepers') \subseteq woken'
          /\ \A h \in Range(sleepers') : task'[h] = NoTask
          /\ \A s \in Slots :
                ( alive[s] /\ sleeper[s] \in Range(sleepers')
                           /\ task[sleeper[s]] = id[s] ) => runnable'[s]
      ]_vars

\* C6 witness: a successful send over a list of at least two handles, the
\* last of which belongs to a Subscriber that was suspended and now is
\* scheduled again.
C6_Witness ==
    /\ sendRes = "Ready"
    /\ Len(sleepers) >= 2
    /\ woken = Range(sleepers)
    /\ \E s \in Slots : /\ alive[s]
                         /\ sleeper[s] = sleepers[Len(sleepers)]
                         /\ lastPoll[s] = "NotReady"
                         /\ runnable[s]

(* -------------------------------- C7 ---------------------------------- *)
\* C7: the items a Subscriber's polls have returned are exactly the items
\* of the log from the position the log had when the Subscriber was
\* constructed up to its read cursor: nothing broadcast before its
\* construction, and every item after it once, in order, none skipped; the
\* log itself holds no item twice.
C7_ItemVisibility ==
    /\ \A s \in Slots : alive[s] =>
          /\ born[s] <= cursor[s]
          /\ cursor[s] <= Len(log)
          /\ got[s] = SubSeq(log, born[s] + 1, cursor[s])
    /\ \A a, b \in DOMAIN log : a < b => log[a] < log[b]

\* C7 witness: a clone constructed after the first item was broadcast has
\* received the second item and not the first, and so has its parent, which
\* received both.
C7_Witness ==
    \E s, t \in Slots :
        /\ alive[s] /\ alive[t]
        /\ born[s] = 0 /\ got[s] = << 0, 1 >>
        /\ born[t] = 1 /\ got[t] = << 1 >>

(* -------------------------------- C8 ---------------------------------- *)
\* The items Subscriber t has still to read.
Future(t) == SubSeq(log, cursor[t] + 1, Len(log))

\* C8: a poll of one Subscriber, whatever it returns, leaves every other
\* Subscriber's read cursor, received items and items still to read as
\* they were.
C8_CloneIndependence ==
    [][ \A s \in Slots : Poll(s) =>
          \A t \in Slots \ {s} : alive[t] =>
              /\ cursor'[t] = cursor[t]
              /\ got'[t] = got[t]
              /\ Future(t)' = Future(t)
      ]_vars

\* C8 witness: a Subscriber and its clone, constructed at the same position
\* of the log; one has read an item the other has still to read.
C8_Witness ==
    \E s, t \in Slots :
        /\ alive[s] /\ alive[t] /\ s # t
        /\ born[s] = born[t]
        /\ lastPoll[s] = "Item"
        /\ cursor[s] = cursor[t] + 1
        /\ Future(t) # << >>

(* -------------------------------- C9 ---------------------------------- *)
\* C9: a Subscriber whose last poll returned end-of-sequence keeps that as
\* the result of its polls for as long as it lives, whatever happens to the
\* other handles; and it is in that state only with the Publisher gone and
\* nothing left to read.
C9_TerminalAbsorption ==
    [][ /\ \A i \in Ids : ( Ended(i) /\ Live(i)' ) => Ended(i)'
        /\ \A s \in Slots : ( alive[s] /\ lastPoll[s] = "End" ) =>
                                ( ~pubAlive /\ ~Unread(s) )
      ]_vars

\* C9 witness: a Subscriber that has reported the end can be polled again,
\* next to a clone of it that has not polled since its construction.
C9_Witness ==
    \E s, t \in Slots :
        /\ alive[s] /\ alive[t] /\ s # t
        /\ lastPoll[s] = "End" /\ runnable[s]
        /\ got[s] # << >>
        /\ lastPoll[t] = "none"

(* -------------------------------- C10 --------------------------------- *)
\* C10: no two live Subscribers hold the same wake handle, and the task
\* stored in a Subscriber's handle is never another Subscriber's task.
C10_FreshWakeIdentity ==
    /\ \A s, t \in Slots :
          ( alive[s] /\ alive[t] /\ s # t ) => sleeper[s] # sleeper[t]
    /\ \A s \in Slots :
          alive[s] => task[sleeper[s]] \in { NoTask, id[s] }

\* C10 witness: a Subscriber and a clone are both suspended, each with its
\* own task stored in its own handle.
C10_Witness ==
    \E s, t \in Slots :
        /\ alive[s] /\ alive[t] /\ s # t
        /\ task[sleeper[s]] = id[s]
        /\ task[sleeper[t]] = id[t]

(* -------------------------------- C11 --------------------------------- *)
\* C11: a poll_complete (flush) or a close on the Publisher returns
\* Ready(()), never an error, and changes nothing: the active list, the
\* registration queue, the channel's items, every read cursor, every stored
\* task and every Subscriber are after the call what they were before it;
\* the only result such a call ever had is Ready.
C11_FlushCloseNoEffect ==
    [][ /\ ( sinkRes' # sinkRes /\ pubAlive' ) =>
              /\ sinkRes' = "Ready"
              /\ UNCHANGED << pubAlive, sleepers, queue, task, log, nextItem,
                              runnable, sendRes, woken, panicked, subVars >>
        /\ sinkRes' \in { "none", "Ready" }
      ]_vars

\* C11 witness: a flush or close has returned while the registry held a
\* queued handle, a Subscriber was suspended and another had an unread item.
C11_Witness ==
    /\ sinkRes = "Ready"
    /\ pubAlive
    /\ queue # << >>
    /\ \E s, t \in Slots : Suspended(s) /\ alive[t] /\ Unread(t)

(* -------------------------------- C12 --------------------------------- *)
\* C12 as stated: a poll that finds the channel empty submits its wake
\* handle through its sender, so that (the Publisher alive, the queue not
\* full) the registration queue gains that handle; it returns NotReady and
\* does not advance the cursor.
C12_EmptyPollSubmitsHandle ==
    [][ \A s \in Slots :
          ( Poll(s) /\ TryRecv(s) = "Empty" ) =>
              /\ ( pubAlive /\ Len(queue) < RegQueueCap ) =>
                      queue' = Append(queue, sleeper[s])
              /\ lastPoll'[s] = "NotReady"
              /\ cursor' = cursor
      ]_vars

\* C12 amended: a poll that finds the channel empty stores the current task
\* in the Subscriber's own wake handle and sends nothing: the registration
\* queue and the active list are unchanged; it returns NotReady, leaves the
\* task suspended and advances no cursor.
C12_EmptyPollArmsHandle ==
    [][ \A s \in Slots :
          ( Poll(s) /\ TryRecv(s) = "Empty" ) =>
              /\ task'[sleeper[s]] = id[s]
              /\ queue' = queue
              /\ sleepers' = sleepers
              /\ lastPoll'[s] = "NotReady"
              /\ ~runnable'[s]
              /\ cursor' = cursor
              /\ got' = got
      ]_vars

\* C12 witness: a Subscriber of the active list is suspended after a poll
\* of the empty channel, its task stored in its handle, while the handle is
\* not in the registration queue, which holds a clone's handle.
C12_Witness ==
    \E s \in Slots :
        /\ Suspended(s)
        /\ ~Unread(s)
        /\ pubAlive
        /\ task[sleeper[s]] = id[s]
        /\ sleeper[s] \in Range(sleepers)
        /\ sleeper[s] \notin Range(queue)
        /\ queue # << >>

(* -------------------------------- C13 --------------------------------- *)
\* a is an initial part of b.
IsPrefix(a, b) == Len(a) <= Len(b) /\ SubSeq(b, 1, Len(a)) = a

\* The handles of the active list that no live Subscriber holds.
Stale == { h \in Range(sleepers) : \A s \in Slots : alive[s] => sleeper[s] # h }

\* C13: while the Publisher lives, no operation (start_send, flush, close,
\* poll, clone, dropping a Subscriber) removes or reorders a handle of the
\* active list: the list before the step is an initial part of the list
\* after it, the handle of a dropped Subscriber included.  A start_send,
\* which notifies such a handle, changes no Subscriber's cursor, received
\* items or last result, and when its broadcast succeeds every live
\* Subscriber whose handle is in the list is scheduled all the same.
C13_ActiveListNeverShrinks ==
    [][ /\ pubAlive' => IsPrefix(sleepers, sleepers')
        /\ ( nextItem' # nextItem ) =>
              UNCHANGED << alive, id, sleeper, cursor, got, lastPoll >>
        /\ ( nextItem' # nextItem /\ BroadcastOk ) =>
              \A s \in Slots :
                  ( alive[s] /\ sleeper[s] \in Range(sleepers') ) => runnable'[s]
      ]_vars

\* C13 witness: the last start_send notified more handles than Subscribers
\* can live at a time, so the handle of a dropped Subscriber among them; it
\* is in the active list before the handle of a Subscriber that was
\* suspended and is scheduled by that start_send.
C13_Witness ==
    /\ sendRes = "Ready"
    /\ Cardinality(woken) > MaxSlots
    /\ \E i, j \in DOMAIN sleepers :
          /\ i < j
          /\ sleepers[i] \in Stale
          /\ sleepers[i] \in woken
          /\ sleepers[j] \in woken
          /\ \E s \in Slots : /\ alive[s] /\ sleeper[s] = sleepers[j]
                                /\ lastPoll[s] = "NotReady" /\ runnable[s]

(* -------------------------------- C14 --------------------------------- *)
\* The place of item x in the channel's log, which is in the order in which
\* the start_send calls succeeded.
PosInLog(x) == CHOOSE k \in DOMAIN log : log[k] = x

\* C14: the items a Subscriber has received are in publish order: of any
\* two items it received, the one it received first is earlier in the
\* channel's log and was given to the earlier start_send call.
C14_PublishOrder ==
    \A s \in Slots :
        alive[s] =>
            \A a, b \in DOMAIN got[s] :
                a < b => /\ got[s][a] \in Range(log)
                         /\ got[s][b] \in Range(log)
                         /\ PosInLog(got[s][a]) < PosInLog(got[s][b])
                         /\ got[s][a] < got[s][b]

\* C14 witness: a Subscriber has received two items between which a
\* start_send failed.
C14_Witness ==
    \E s \in Slots :
        /\ alive[s]
        /\ Len(got[s]) >= 2
        /\ got[s][2] > got[s][1] + 1

(* -------------------------------- C15 --------------------------------- *)
\* C15: every handle that is in the registration queue when a start_send
\* drains it is in the active list when that start_send returns, and is
\* notified by it if its broadcast succeeds.
C15_DrainGuarantee ==
    [][ ( nextItem' # nextItem ) =>
            /\ Range(queue) \subseteq Range(sleepers')
            /\ BroadcastOk => Range(queue) \subseteq woken'
      ]_vars

(* -------------------------------- C16 --------------------------------- *)
\* The step notifies a handle: a Subscriber that lives on becomes scheduled
\* to poll, or the task stored in a handle is taken from it while the
\* Subscriber that task polls lives on.
NotifyStep ==
    \/ \E s, t \in Slots : /\ alive[s] /\ alive'[t] /\ id'[t] = id[s]
                            /\ ~runnable[s] /\ runnable'[t]
    \/ \E h \in Ids : /\ task[h] # NoTask /\ task'[h] = NoTask
                       /\ \E t \in Slots : alive'[t] /\ id'[t] = task[h]

\* C16: a handle is notified only in a step of start_send, never by poll,
\* clone, flush, close or a drop; in that step the broadcast has succeeded
\* (the item is in the channel), the handles notified are those of the
\* active list as the drain of the same step left it, and every live
\* Subscriber has the item just broadcast to read.
C16_NotifyOnlyAfterBroadcast ==
    [][ NotifyStep =>
            /\ nextItem' # nextItem
            /\ sendRes' = "Ready"
            /\ log' = Append(log, nextItem)
            /\ woken' = Range(RegisterReceiversSleepers(sleepers, queue))
            /\ woken' = Range(sleepers')
            /\ \A s \in Slots : alive'[s] => cursor'[s] < Len(log')
      ]_vars

\* C16 witness: a Subscriber that was suspended has been notified by a
\* start_send and has the item to read, after a flush or close was called.
C16_Witness ==
    \E s \in Slots :
        /\ alive[s]
        /\ lastPoll[s] = "NotReady"
        /\ runnable[s]
        /\ sleeper[s] \in woken
        /\ Unread(s)
        /\ sinkRes = "Ready"
        /\ pubAlive

(* -------------------------------- C17 --------------------------------- *)
\* C17: the drain of a start_send removes exactly the handles that are in
\* the registration queue at that time and appends each of them to the
\* active list.
C17_DrainTakesAllQueued ==
    [][ ( nextItem' # nextItem ) =>
            /\ queue' = << >>
            /\ sleepers' = sleepers \o queue
      ]_vars

(* -------------------------------- C18 --------------------------------- *)
\* C18: while the Publisher lives, only a start_send changes the active
\* list.  poll and the drop of a Subscriber change neither the list nor
\* the registration queue; clone leaves the list alone and changes the
\* queue by at most one appended handle, within the queue's capacity.
C18_SingleWriter ==
    [][ /\ ( sleepers' # sleepers /\ pubAlive' ) => nextItem' # nextItem
        /\ \A s \in Slots :
              ( Poll(s) \/ DropSubscriber(s) ) =>
                  ( sleepers' = sleepers /\ queue' = queue )
        /\ \A p, c \in Slots :
              Clone(p, c) =>
                  /\ sleepers' = sleepers
                  /\ \/ queue' = queue
                     \/ \E h \in Ids : queue' = Append(queue, h)
                  /\ Len(queue') <= RegQueueCap
      ]_vars

\* C18 witness: a clone has polled the empty channel and is suspended with
\* its handle still in the registration queue and not in the active list,
\* to which an earlier start_send has added another clone's handle.
C18_Witness ==
    \E s \in Slots :
        /\ Suspended(s)
        /\ sleeper[s] \in Range(queue)
        /\ sleeper[s] \notin Range(sleepers)
        /\ Len(sleepers) >= 2

(* -------------------------------- C19 --------------------------------- *)
\* No element occurs twice in q.
NoDuplicate(q) == \A i, j \in DOMAIN q : i # j => q[i] # q[j]

\* C19: a handle is in the registry at most once: the active list followed
\* by the registration queue has no handle twice (a poll puts none in
\* again), and the active list is no longer than one plus the number of
\* clones made so far.
C19_HandleSubmittedOnce ==
    /\ NoDuplicate(sleepers \o queue)
    /\ Len(sleepers) <= nextId
    /\ Len(sleepers) + Len(queue) <= nextId

\* C19 witness: two Subscribers of the active list are both suspended after
\* polling the empty channel, one of them after it has received an item.
C19_Witness ==
    \E s, t \in Slots :
        /\ s # t
        /\ Suspended(s) /\ Suspended(t)
        /\ sleeper[s] \in Range(sleepers)
        /\ sleeper[t] \in Range(sleepers)
        /\ got[s] # << >>

(* -------------------------------- C20 --------------------------------- *)
\* C20: the unwrap in the Publisher's drop never fails: no state has the
\* drop panicked, and once the Publisher is gone the close its drop called
\* has returned Ready.
C20_DropNeverPanics ==
    /\ ~panicked
    /\ ~pubAlive => sinkRes = "Ready"

\* C20 witness: the Publisher has been dropped, without a flush or close
\* before the drop, while a Subscriber was suspended and another had an
\* item to read.
C20_Witness ==
    /\ ~pubAlive
    /\ \E s, t \in Slots : Suspended(s) /\ alive[t] /\ Unread(t)

=============================================================================
